---- MODULE Spec2Model ----
(***************************************************************************)
(* Model of the momentum portfolio pipeline of hedgefund.py: momentum      *)
(* scoring, asset selection, max-Sharpe optimisation with weight cleaning, *)
(* the backtest against SPY and the discrete allocation.                   *)
(*                                                                         *)
(* Floating-point numbers are modelled as exact rationals <<n, d>> with    *)
(* d > 0 in lowest terms; the float NaN is the pair <<0, 0>>.              *)
(*                                                                         *)
(* The pandas frames are modelled by what the calls on them compute for a  *)
(* universe of several assets: momentum is the per-asset table of          *)
(* (6m, 12m, total) and nlargest(n, 'total') ranks the assets by total.    *)
(* The calls into pandas and PyPortfolioOpt are modelled by the behaviour  *)
(* of the library function called: nlargest with keep='first' and NaN      *)
(* rows last, sum(axis=1) and cumprod skipping NaN, clean_weights with its *)
(* default cutoff and rounding, lp_portfolio as its integer program.  The  *)
(* estimators and the solver of max_sharpe are not computed: the solver    *)
(* yields any weight vector of a bounded grid that meets its constraints,  *)
(* or raises.                                                              *)
(*                                                                         *)
(* The last section models recommend_portfolio of sharktank.py, a program  *)
(* of its own in the same repository, with variables of its own; it shares *)
(* pc and allocation, the name both programs give to their result.         *)
(***************************************************************************)
EXTENDS Integers, Sequences, FiniteSets, TLC

VARIABLES
    pc,            \* position in the run
    tickers,       \* get_assets(): the universe, in listing order
    momentum,      \* asset -> [r6, r12, total]
    selected,      \* the assets handed to the optimizer, in nlargest order
    raw_weights,   \* ef.weights after max_sharpe
    weights,       \* ef.clean_weights()
    prices,        \* download_data(): the price history, rows of asset -> price
    rebalance,     \* the row numbers that are rebalance dates of the index
    portfolio,     \* the backtest's working frame: column -> row -> value
    todo,          \* rebalance dates the loop has not processed yet
    cum_returns,   \* the backtest's result: column -> row -> value
    latest_prices, \* get_latest_prices(prices)
    budget,        \* total_portfolio_value
    allocation,    \* da.lp_portfolio()[0]; in sharktank.py the dict returned
    leftover,      \* da.lp_portfolio()[1]
    error,         \* the call whose exception ended the run, "" when none
    first,         \* the frozen input and the results of the run before this one
    risk,          \* recommend_portfolio: the argument risk
    include_insurance,  \* recommend_portfolio: the argument include_insurance
    base,          \* recommend_portfolio: the dict base
    keys,          \* recommend_portfolio: list(base.keys()) not yet visited
    scale,         \* recommend_portfolio: the rescaling factor
    page           \* the lines of the allocation shown on the page

vars == << pc, tickers, momentum, selected, raw_weights, weights, prices,
           rebalance, portfolio, todo, cum_returns, latest_prices, budget,
           allocation, leftover, error, first, risk, include_insurance, base,
           keys, scale, page >>

\* the state of recommend_portfolio and of the page that shows its result,
\* which the pipeline of hedgefund.py never touches
advisor == << risk, include_insurance, base, keys, scale, page >>

----------------------------------------------------------------------------
(* Rational arithmetic standing for Python floats. *)

NaN == << 0, 0 >>

IsNaN(a) == a[2] = 0

Abs(i) == IF i < 0 THEN -i ELSE i

RECURSIVE GCD(_, _)
GCD(a, b) == IF b = 0 THEN a ELSE GCD(b, a % b)

Rat(n, d) ==
    IF d = 0 THEN NaN
    ELSE LET g == GCD(Abs(n), Abs(d))
             s == IF d < 0 THEN -1 ELSE 1
         IN  << s * (n \div g), s * (d \div g) >>

Zero == << 0, 1 >>
One == << 1, 1 >>

RAdd(a, b) ==
    IF IsNaN(a) \/ IsNaN(b) THEN NaN
    ELSE LET g == GCD(a[2], b[2])
         IN  Rat(a[1] * (b[2] \div g) + b[1] * (a[2] \div g), (a[2] \div g) * b[2])

RNeg(a) == IF IsNaN(a) THEN NaN ELSE << -a[1], a[2] >>

RSub(a, b) == RAdd(a, RNeg(b))

RMul(a, b) ==
    IF IsNaN(a) \/ IsNaN(b) THEN NaN
    ELSE LET g1 == GCD(Abs(a[1]), b[2])
             g2 == GCD(Abs(b[1]), a[2])
         IN  Rat((a[1] \div g1) * (b[1] \div g2), (a[2] \div g2) * (b[2] \div g1))

RDiv(a, b) ==
    IF IsNaN(a) \/ IsNaN(b) \/ b[1] = 0 THEN NaN
    ELSE RMul(a, Rat(b[2], b[1]))

RAbs(a) == IF IsNaN(a) THEN NaN ELSE << Abs(a[1]), a[2] >>

\* a < b; every comparison with NaN is false, as in Python
RLess(a, b) ==
    /\ ~IsNaN(a)
    /\ ~IsNaN(b)
    /\ LET d == RSub(a, b) IN d[1] < 0

RLeq(a, b) ==
    /\ ~IsNaN(a)
    /\ ~IsNaN(b)
    /\ LET d == RSub(a, b) IN d[1] <= 0

RInt(i) == << i, 1 >>

RECURSIVE RSum(_, _)
RSum(S, f) ==
    IF S = {} THEN Zero
    ELSE LET a == CHOOSE x \in S : TRUE
         IN  RAdd(f[a], RSum(S \ {a}, f))

RECURSIVE ISum(_, _)
ISum(S, f) ==
    IF S = {} THEN 0
    ELSE LET a == CHOOSE x \in S : TRUE
         IN  f[a] + ISum(S \ {a}, f)

Range(s) == { s[i] : i \in DOMAIN s }

\* a variable the run has not assigned yet
None == << >>

----------------------------------------------------------------------------
(* calculate_momentum and the selection of optimize_portfolio. *)

Rows(P) == 1..Len(P)

\* Series.pct_change(periods): NaN on the first periods rows,
\* p[t] / p[t - periods] - 1 after them
pct_change(P, a, periods) ==
    [t \in Rows(P) |->
        IF t <= periods THEN NaN
        ELSE RSub(RDiv(RInt(P[t][a]), RInt(P[t - periods][a])), One)]

\* the lookback windows of lines 48-49
W6 == 126
W12 == 252

\* lines 47-51 on the last row of the frame P: per asset the 6m and 12m
\* returns and total = 0.4 * 6m + 0.6 * 12m; NaN inputs give a NaN total
calculate_momentum(P, assets) ==
    [a \in Range(assets) |->
        LET r6 == pct_change(P, a, W6)[Len(P)]
            r12 == pct_change(P, a, W12)[Len(P)]
        IN  [r6 |-> r6, r12 |-> r12,
             total |-> RAdd(RMul(r6, << 2, 5 >>), RMul(r12, << 3, 5 >>))]]

\* prices.iloc[-1:]: the frame of the last row alone
LastRowOnly(P) == << P[Len(P)] >>

\* int(len(momentum.columns) * 0.3): the float product truncated; the
\* product is the exact integer whenever 3 N / 10 is one, so this is the floor
SelectionCount(N) == (3 * N) \div 10

\* the row at position i comes before the row at position j in
\* nlargest(n, 'total'): larger totals first, equal totals in the order of
\* the frame (keep='first'), NaN totals after every number in frame order
Before(m, assets, i, j) ==
    LET ti == m[assets[i]].total
        tj == m[assets[j]].total
    IN  IF IsNaN(ti) THEN IsNaN(tj) /\ i < j
        ELSE IF IsNaN(tj) THEN TRUE
        ELSE RLess(tj, ti) \/ (ti = tj /\ i < j)

\* the position of the frame that is k-th in nlargest order
NthLargest(m, assets, k) ==
    CHOOSE i \in DOMAIN assets :
        Cardinality({ j \in DOMAIN assets : j # i /\ Before(m, assets, j, i) }) = k - 1

\* line 56: the first n rows in nlargest order
nlargest(m, assets, n) ==
    [k \in 1..n |-> assets[NthLargest(m, assets, k)]]

Select(m, assets) == nlargest(m, assets, SelectionCount(Len(assets)))

----------------------------------------------------------------------------
(* optimize_portfolio: the solver's result and ef.clean_weights(). *)

\* clean_weights(cutoff=1e-4, rounding=5), the defaults of the call
CUTOFF == << 1, 10000 >>
ROUNDING == 100000

\* np.round(x, 5): to the nearest multiple of 1e-5, halves to the even one
Round5(x) ==
    IF IsNaN(x) THEN NaN
    ELSE LET y == RMul(x, RInt(ROUNDING))
             fl == y[1] \div y[2]
             twice == 2 * (y[1] - fl * y[2])
             q == IF twice < y[2] THEN fl
                  ELSE IF twice > y[2] THEN fl + 1
                  ELSE IF fl % 2 = 0 THEN fl ELSE fl + 1
         IN  Rat(q, ROUNDING)

\* weights below the cutoff in absolute value become 0, then all are rounded;
\* every selected ticker keeps its key and nothing is renormalised
clean_weights(w) ==
    [a \in DOMAIN w |-> IF RLess(RAbs(w[a]), CUTOFF) THEN Zero ELSE Round5(w[a])]

\* the values the solver's weights are drawn from
RawValues ==
    { Zero, << 1, 20000 >>, << 1, 3 >>, << 1, 2 >>, << 2, 3 >>,
      << 19999, 20000 >>, One }

\* ef.max_sharpe() under its constraints: w >= 0 and sum(w) = 1
SolverWeightsOver(S, values) ==
    { w \in [S -> values] : RSum(S, w) = One }

SolverWeights(S) == SolverWeightsOver(S, RawValues)

\* the covariance of the selected assets cannot be estimated or is the
\* zero matrix: nothing selected, no return row, or every selected series flat
Degenerate(P, sel) ==
    \/ sel = << >>
    \/ Len(P) < 2
    \/ \A a \in Range(sel) : \A t \in Rows(P) : P[t][a] = P[1][a]

\* main, lines 123-125 and calculate_momentum, lines 45-51, on the frame F
CalculateMomentum(F) ==
    /\ pc = "calculate_momentum"
    /\ momentum' = calculate_momentum(F, tickers)
    /\ pc' = "optimize_portfolio"
    /\ UNCHANGED << tickers, selected, raw_weights, weights, prices, rebalance,
                    portfolio, todo, cum_returns, latest_prices, budget,
                    allocation, leftover, error, first, advisor >>

\* optimize_portfolio with the failure of the solver caught and replaced by
\* equal weights over the selection
OptimizePortfolioFallback ==
    /\ pc = "optimize_portfolio"
    /\ selected' = Select(momentum, tickers)
    /\ \/ /\ ~Degenerate(prices, selected')
          /\ raw_weights' \in SolverWeights(Range(selected'))
          /\ error' = error
       \/ /\ selected' # << >>
          /\ raw_weights' = [a \in Range(selected') |-> Rat(1, Len(selected'))]
          /\ error' = "optimize_portfolio"
    /\ weights' = clean_weights(raw_weights')
    /\ pc' = "backtest_strategy"
    /\ UNCHANGED << tickers, momentum, prices, rebalance, portfolio, todo,
                    cum_returns, latest_prices, budget, allocation, leftover,
                    first, advisor >>

\* optimize_portfolio, lines 53-67: the selection, then the estimation and
\* max_sharpe, which either raise (nothing in main catches it) or yield the
\* solver's weights, then clean_weights
OptimizePortfolio ==
    /\ pc = "optimize_portfolio"
    /\ selected' = Select(momentum, tickers)
    /\ \/ /\ ~Degenerate(prices, selected')
          /\ raw_weights' \in SolverWeights(Range(selected'))
          /\ weights' = clean_weights(raw_weights')
          /\ pc' = "backtest_strategy"
          /\ error' = error
       \/ /\ raw_weights' = None
          /\ weights' = None
          /\ error' = "optimize_portfolio"
          /\ pc' = "aborted"
    /\ UNCHANGED << tickers, momentum, prices, rebalance, portfolio, todo,
                    cum_returns, latest_prices, budget, allocation, leftover,
                    first, advisor >>

----------------------------------------------------------------------------
(* DiscreteAllocation(weights, latest_prices, total_portfolio_value)       *)
(* .lp_portfolio(): the integer program                                    *)
(*   minimise sum_i |w_i V - x_i p_i| + r,  r = V - sum_i x_i p_i,         *)
(*   subject to x integer, x >= 0, r >= 0.                                 *)

CASH == 100000

Spent(x, p) == ISum(DOMAIN x, [a \in DOMAIN x |-> x[a] * p[a]])

Eta(w, p, V, x) ==
    [a \in DOMAIN w |-> RSub(RMul(w[a], RInt(V)), RInt(x[a] * p[a]))]

\* the objective with the target dollars taken as w_i instead of w_i V
LpObjectiveUnscaled(w, p, V, x) ==
    RAdd(RSum(DOMAIN w, [a \in DOMAIN w |-> RAbs(RSub(w[a], RInt(x[a] * p[a])))]),
         RInt(V - Spent(x, p)))

LpObjective(w, p, V, x) ==
    LET eta == Eta(w, p, V, x)
    IN  RAdd(RSum(DOMAIN w, [a \in DOMAIN w |-> RAbs(eta[a])]),
             RInt(V - Spent(x, p)))

MaxOf(S) == CHOOSE m \in S : \A o \in S : o <= m

\* the program without the constraint r >= 0
LpFeasibleUnbudgeted(w, p, V) ==
    LET top == MaxOf({0} \cup { V \div p[a] : a \in DOMAIN w })
    IN  [DOMAIN w -> 0..(top + 1)]

\* the constraints x >= 0 and r >= 0
LpFeasible(w, p, V) ==
    LET top == MaxOf({0} \cup { V \div p[a] : a \in DOMAIN w })
    IN  { x \in [DOMAIN w -> 0..top] : Spent(x, p) <= V }

RECURSIVE RMinOf(_)
RMinOf(S) ==
    LET a == CHOOSE x \in S : TRUE
    IN  IF S = {a} THEN a
        ELSE LET m == RMinOf(S \ {a})
             IN  IF RLess(a, m) THEN a ELSE m

\* every optimum of the program; the solver returns one of them
LpOptimal(w, p, V) ==
    LET F == LpFeasible(w, p, V)
        obj == [x \in F |-> LpObjective(w, p, V, x)]
        best == RMinOf(Range(obj))
    IN  { x \in F : obj[x] = best }

\* _remove_zero_positions: only the assets that received units are reported
remove_zero_positions(x) ==
    [a \in { b \in DOMAIN x : x[b] # 0 } |-> x[a]]

\* get_latest_prices(prices): the last row of the price history
get_latest_prices(P) == P[Len(P)]

\* main, lines 139-146: the allocation of the cleaned weights at prices p
\* under the budget V; the prints that follow change no state
DiscreteAllocation(p, V) ==
    /\ pc = "allocate"
    /\ latest_prices' = p
    /\ budget' = V
    /\ \E x \in LpOptimal(weights, p, V) :
          /\ allocation' = remove_zero_positions(x)
          /\ leftover' = V - Spent(x, p)
    /\ pc' = "done"
    /\ UNCHANGED << tickers, momentum, selected, raw_weights, weights,
                    prices, rebalance, portfolio, todo, cum_returns, error,
                    first, advisor >>

----------------------------------------------------------------------------
(* backtest_strategy(prices, weights, 'Q').  A column is a sequence of     *)
(* values over the rows of prices.index; rebalance holds the rows whose    *)
(* date is a quarter end of pd.date_range(first, last, freq='Q').          *)

SPY == "SPY"

\* DataFrame.sum(axis=1): the sum of row t over the columns C, NaN skipped
RECURSIVE RowSum(_, _, _)
RowSum(F, C, t) ==
    IF C = {} THEN Zero
    ELSE LET c == CHOOSE x \in C : TRUE
             rest == RowSum(F, C \ {c}, t)
         IN  IF IsNaN(F[c][t]) THEN rest ELSE RAdd(F[c][t], rest)

\* lines 72-77: the SPY column, then one weighted column per ticker of
\* weights; a weight on SPY itself overwrites the SPY column
WeightedColumns(P, w) ==
    [c \in {SPY} \cup DOMAIN w |->
        IF c \in DOMAIN w
        THEN [t \in Rows(P) |-> RMul(pct_change(P, c, 1)[t], w[c])]
        ELSE pct_change(P, SPY, 1)]

\* line 79: Strategy is the row sum of every column but SPY
InitialPortfolio(P, w) ==
    LET F == WeightedColumns(P, w)
    IN  [c \in DOMAIN F \cup {"Strategy"} |->
            IF c = "Strategy"
            THEN [t \in Rows(P) |-> RowSum(F, DOMAIN F \ {SPY}, t)]
            ELSE F[c]]

\* line 85: from the rebalance row on, Strategy is the row sum of the
\* columns of every ticker of weights
RebalanceFrom(F, w, d) ==
    [F EXCEPT !["Strategy"] =
        [t \in DOMAIN @ |-> IF t >= d THEN RowSum(F, DOMAIN w, t) ELSE @[t]]]

\* Series.cumprod(): the running product over the rows, NaN rows skipped
\* and left NaN
RECURSIVE CumProdAt(_, _)
CumProdAt(col, t) ==
    IF t = 0 THEN One
    ELSE IF IsNaN(col[t]) THEN CumProdAt(col, t - 1)
    ELSE RMul(col[t], CumProdAt(col, t - 1))

cumprod(col) ==
    [t \in DOMAIN col |-> IF IsNaN(col[t]) THEN NaN ELSE CumProdAt(col, t)]

\* line 88
CumReturns(F) ==
    [c \in {SPY, "Strategy"} |-> cumprod([t \in DOMAIN F[c] |-> RAdd(One, F[c][t])])]

RECURSIVE SortedSeq(_)
SortedSeq(S) ==
    IF S = {} THEN << >>
    ELSE LET m == CHOOSE x \in S : \A y \in S : x <= y
         IN  << m >> \o SortedSeq(S \ {m})

\* lines 72-82
BacktestBegin ==
    /\ pc = "backtest_strategy"
    /\ portfolio' = InitialPortfolio(prices, weights)
    /\ todo' = SortedSeq(rebalance)
    /\ pc' = "rebalance"
    /\ UNCHANGED << tickers, momentum, selected, raw_weights, weights,
                    prices, rebalance, cum_returns, latest_prices, budget,
                    allocation, leftover, error, first, advisor >>

\* lines 83-85, one rebalance date of the index
RebalanceStep ==
    /\ pc = "rebalance"
    /\ todo # << >>
    /\ portfolio' = RebalanceFrom(portfolio, weights, Head(todo))
    /\ todo' = Tail(todo)
    /\ UNCHANGED << pc, tickers, momentum, selected, raw_weights, weights,
                    prices, rebalance, cum_returns, latest_prices, budget,
                    allocation, leftover, error, first, advisor >>

\* lines 88-90
BacktestEnd ==
    /\ pc = "rebalance"
    /\ todo = << >>
    /\ cum_returns' = CumReturns(portfolio)
    /\ pc' = "plot_results"
    /\ UNCHANGED << tickers, momentum, selected, raw_weights, weights,
                    prices, rebalance, portfolio, todo, latest_prices, budget,
                    allocation, leftover, error, first, advisor >>

----------------------------------------------------------------------------
(* main: one run of the script. *)

\* lines 14-37
get_assets ==
    << "SPY", "QQQ", "DIA", "IWM", "VGK", "EWJ", "EEM", "GLD", "TLT", "IEF",
       "DBC", "VNQ", "XLE", "XLF", "XLK", "XLV", "XLI", "XLP", "XLY", "XLU" >>

\* line 123
GetAssets ==
    /\ pc = "get_assets"
    /\ tickers' = get_assets
    /\ pc' = "download_data"
    /\ UNCHANGED << momentum, selected, raw_weights, weights, prices, rebalance,
                    portfolio, todo, cum_returns, latest_prices, budget,
                    allocation, leftover, error, first, advisor >>

\* line 124 and download_data, lines 39-43: the download raises, or yields
\* the history P whose index has its quarter ends on the rows R
DownloadData(P, R) ==
    /\ pc = "download_data"
    /\ \/ /\ prices' = P
          /\ rebalance' = R
          /\ pc' = "calculate_momentum"
          /\ error' = error
       \/ /\ UNCHANGED << prices, rebalance >>
          /\ error' = "download_data"
          /\ pc' = "aborted"
    /\ UNCHANGED << tickers, momentum, selected, raw_weights, weights,
                    portfolio, todo, cum_returns, latest_prices, budget,
                    allocation, leftover, first, advisor >>

\* line 136: plt.show() returns
PlotResults ==
    /\ pc = "plot_results"
    /\ pc' = "generate_report"
    /\ UNCHANGED << tickers, momentum, selected, raw_weights, weights, prices,
                    rebalance, portfolio, todo, cum_returns, latest_prices,
                    budget, allocation, leftover, error, first, advisor >>

\* line 137: the metrics are printed
GenerateReport ==
    /\ pc = "generate_report"
    /\ pc' = "allocate"
    /\ UNCHANGED << tickers, momentum, selected, raw_weights, weights, prices,
                    rebalance, portfolio, todo, cum_returns, latest_prices,
                    budget, allocation, leftover, error, first, advisor >>

----------------------------------------------------------------------------
(* The allocator on its own: every cleaned weight vector, price vector and *)
(* budget of the bounded sets.                                             *)

MaxUnits == 10

AllocAssetSets == { {"A"}, {"A", "B"} }
PriceValues == { 1, 3, 4, 6, 9, 300, 400 }
Budgets == { 10, 1000 }

InitAlloc ==
    /\ pc = "allocate"
    /\ \E S \in AllocAssetSets : raw_weights \in SolverWeights(S)
    /\ weights = clean_weights(raw_weights)
    /\ selected = None
    /\ tickers = None
    /\ momentum = None
    /\ prices = None
    /\ rebalance = {}
    /\ portfolio = None
    /\ todo = None
    /\ cum_returns = None
    /\ latest_prices = None
    /\ budget = 0
    /\ allocation = None
    /\ leftover = 0
    /\ error = ""
    /\ first = None
    /\ risk = ""
    /\ include_insurance = FALSE
    /\ base = None
    /\ keys = None
    /\ scale = None
    /\ page = None

AllocateAny ==
    \E V \in Budgets :
        \E p \in [DOMAIN weights -> PriceValues] :
            /\ \A a \in DOMAIN weights : V \div p[a] <= MaxUnits
            /\ DiscreteAllocation(p, V)

NextAlloc == AllocateAny

SpecAlloc == InitAlloc /\ [][NextAlloc]_vars

\* the units an asset received (0 when it is not reported)
Units(a) == IF a \in DOMAIN allocation THEN allocation[a] ELSE 0

Allocated == pc = "done" /\ DOMAIN latest_prices = DOMAIN weights /\ DOMAIN weights # {}

CheapestPrice == CHOOSE m \in Range(latest_prices) : \A o \in Range(latest_prices) : m <= o

AffordsEvery == budget >= ISum(DOMAIN latest_prices, latest_prices)

\* C3: when the budget buys one unit of every selected asset, the allocation
\* ends with leftover cash strictly below the price of the cheapest selected
\* asset.
C3_LeftoverBelowCheapest ==
    (Allocated /\ AffordsEvery) => leftover < CheapestPrice

\* C4: in the allocation result every unit count is a non-negative integer,
\* the leftover is not negative and the units at their latest prices plus the
\* leftover do not exceed the budget.
C4_AllocationWithinBudget ==
    Allocated =>
        /\ \A a \in DOMAIN weights : Units(a) \in Nat
        /\ \A a \in DOMAIN allocation : a \in DOMAIN weights /\ allocation[a] \in Nat
        /\ leftover >= 0
        /\ ISum(DOMAIN allocation,
                [a \in DOMAIN allocation |-> allocation[a] * latest_prices[a]])
             + leftover <= budget

\* an allocation of two assets that leaves cash over
C4_Witness ==
    /\ Allocated
    /\ Cardinality(DOMAIN allocation) = 2
    /\ leftover > 0

\* floor(weight * budget / price)
FloorUnits(a) ==
    LET t == RDiv(RMul(weights[a], RInt(budget)), RInt(latest_prices[a]))
    IN  t[1] \div t[2]

SingleFullWeight == Allocated /\ DOMAIN weights = {"A"} /\ weights["A"] = One

\* C9 as stated: every asset holds at least its first-pass count
\* floor(weight * budget / price), the top-up only adding units, and one
\* asset of weight 100% at price 300 under budget 1000 gets 3 units with
\* leftover 100.
C9_FloorFirstPass ==
    /\ Allocated => \A a \in DOMAIN weights : Units(a) >= FloorUnits(a)
    /\ (SingleFullWeight /\ latest_prices["A"] = 300 /\ budget = 1000)
          => (Units("A") = 3 /\ leftover = 100)

\* C9 as amended: a single asset of weight 100% receives floor(budget / price)
\* units and the leftover is the budget less their cost; at price 300 under
\* budget 1000 that is 3 units and leftover 100.
C9_SingleAssetFloor ==
    /\ SingleFullWeight
          => /\ Units("A") = budget \div latest_prices["A"]
             /\ Units("A") = FloorUnits("A")
             /\ leftover = budget - Units("A") * latest_prices["A"]
    /\ (SingleFullWeight /\ latest_prices["A"] = 300 /\ budget = 1000)
          => (Units("A") = 3 /\ leftover = 100)

\* the scenario of C9 has been allocated
C9_Witness ==
    /\ SingleFullWeight
    /\ latest_prices["A"] = 300
    /\ budget = 1000
    /\ allocation = [a \in {"A"} |-> 3]
    /\ leftover = 100

\* the allocator was called with a budget below the price of every asset
Unaffordable ==
    /\ DOMAIN latest_prices = DOMAIN weights
    /\ DOMAIN weights # {}
    /\ \A a \in DOMAIN weights : latest_prices[a] > budget

\* C11: when the budget does not buy one unit of any selected asset, the
\* allocator fails with its error and the run is aborted: it does not end
\* with a result of unit counts and leftover.
C11_BudgetErrorAborts ==
    Unaffordable => (pc = "aborted" /\ error # "")

----------------------------------------------------------------------------
(* The backtest on its own: every bounded price history with SPY, every    *)
(* cleaned weight vector over its tickers, every set of rebalance rows.    *)

MaxRows == 3

BacktestTickers == { SPY, "A" }
PriceLevels == { 100, 200 }
BacktestRawValues == { Zero, << 1, 5 >>, << 1, 2 >>, << 4, 5 >>, One }

InitBacktest ==
    /\ pc = "backtest_strategy"
    /\ \E S \in (SUBSET BacktestTickers) \ {{}} :
          raw_weights \in SolverWeightsOver(S, BacktestRawValues)
    /\ weights = clean_weights(raw_weights)
    /\ \E n \in 2..MaxRows : prices \in [1..n -> [BacktestTickers -> PriceLevels]]
    /\ rebalance \in SUBSET (1..Len(prices))
    /\ selected = None
    /\ tickers = None
    /\ momentum = None
    /\ portfolio = None
    /\ todo = None
    /\ cum_returns = None
    /\ latest_prices = None
    /\ budget = 0
    /\ allocation = None
    /\ leftover = 0
    /\ error = ""
    /\ first = None
    /\ risk = ""
    /\ include_insurance = FALSE
    /\ base = None
    /\ keys = None
    /\ scale = None
    /\ page = None

NextBacktest == BacktestBegin \/ RebalanceStep \/ BacktestEnd

SpecBacktest == InitBacktest /\ [][NextBacktest]_vars

Backtested == pc = "plot_results"

\* C2: the cumulative-return series is 1.0 on the first date for the
\* benchmark column and for the strategy column.
C2_FirstValueIsOne ==
    Backtested => /\ cum_returns[SPY][1] = One
                  /\ cum_returns["Strategy"][1] = One

\* the simple daily return of asset a on row t, undefined on the first row
DailyReturn(a, t) == pct_change(prices, a, 1)[t]

\* the weight of asset a at the open of row t under buy-and-hold-then-reset:
\* the target weight on the first date and on every rebalance date, and
\* otherwise the weight of the row before grown by that row's return
RECURSIVE EffectiveWeight(_, _)
EffectiveWeight(a, t) ==
    IF t = 1 \/ t \in rebalance THEN weights[a]
    ELSE LET growth(b) == IF IsNaN(DailyReturn(b, t - 1)) THEN One
                          ELSE RAdd(One, DailyReturn(b, t - 1))
             grown == [b \in DOMAIN weights |->
                          RMul(EffectiveWeight(b, t - 1), growth(b))]
         IN  RDiv(grown[a], RSum(DOMAIN weights, grown))

\* C13: the strategy return of every date is the sum over the selected
\* assets of effective weight times daily return, the effective weights
\* being the target weights on the first date and on every rebalance date
\* and drifting with the assets' returns in between.
C13_DriftingWeights ==
    Backtested =>
        \A t \in 2..Len(prices) :
            portfolio["Strategy"][t] =
                RSum(DOMAIN weights,
                     [a \in DOMAIN weights |->
                         RMul(EffectiveWeight(a, t), DailyReturn(a, t))])

\* the sum over the selected assets of target weight times daily return on
\* row t, each asset counted once and an undefined return counted as none
TargetReturn(t) ==
    RSum({ a \in DOMAIN weights : ~IsNaN(DailyReturn(a, t)) },
         [a \in DOMAIN weights |-> RMul(weights[a], DailyReturn(a, t))])

\* C14: whatever the weight vector, SPY's own weight included, the benchmark
\* column holds on every date the unweighted simple return of SPY, and when
\* SPY is a selected asset its weighted return is part of the strategy return
\* on every date.
C14_BenchmarkUnweighted ==
    Backtested =>
        \A t \in Rows(prices) :
            /\ portfolio[SPY][t] = DailyReturn(SPY, t)
            /\ SPY \in DOMAIN weights =>
                  portfolio["Strategy"][t] = TargetReturn(t)

\* C15: however many rebalance dates the loop has processed, the strategy
\* return of every date holds the weighted return of each selected asset
\* exactly once.
C15_EachAssetOnce ==
    pc \in { "rebalance", "plot_results" } =>
        \A t \in Rows(prices) : portfolio["Strategy"][t] = TargetReturn(t)

\* processing a rebalance date leaves the strategy return of every earlier
\* date as it was
EarlierRowsKept ==
    [][pc = "rebalance" /\ todo # << >> =>
          \A t \in Rows(prices) :
              t < Head(todo) => portfolio'["Strategy"][t] = portfolio["Strategy"][t]]_vars

\* without a weight on SPY the strategy return is the sum of the weighted
\* returns on every date
OnceWithoutBenchmark ==
    (pc \in { "rebalance", "plot_results" } /\ SPY \notin DOMAIN weights) =>
        \A t \in Rows(prices) : portfolio["Strategy"][t] = TargetReturn(t)

----------------------------------------------------------------------------
(* Scoring and selection on their own: every bounded universe order and    *)
(* every price frame built from the profiles, of 1, 127 or 253 rows.       *)

MaxUniverse == 4

Alphabet == << "A", "B", "C", "D", "E", "F" >>

TickerPool == { Alphabet[i] : i \in 1..MaxUniverse }

\* the prices of an asset 252 rows back, 126 rows back and on the last row
Profiles ==
    { [lag12 |-> 110, lag6 |-> 120, last |-> 132],
      [lag12 |-> 1020, lag6 |-> 950, last |-> 969] }

FrameLengths == { 1, W6 + 1, W12 + 1 }

\* a frame of n rows whose last row, row n - 126 and row n - 252 carry the
\* prices of the profile
History(n, prof) ==
    [t \in 1..n |->
        [a \in DOMAIN prof |->
            IF t <= n - W12 THEN prof[a].lag12
            ELSE IF t <= n - W6 THEN prof[a].lag6
            ELSE prof[a].last]]

Universes ==
    { u \in UNION { [1..n -> TickerPool] : n \in 2..MaxUniverse } :
        \A i, j \in DOMAIN u : i # j => u[i] # u[j] }

InitSelect ==
    /\ pc = "calculate_momentum"
    /\ tickers \in Universes
    /\ \E n \in FrameLengths : \E prof \in [Range(tickers) -> Profiles] :
          prices = History(n, prof)
    /\ rebalance = {}
    /\ momentum = None
    /\ selected = None
    /\ raw_weights = None
    /\ weights = None
    /\ portfolio = None
    /\ todo = None
    /\ cum_returns = None
    /\ latest_prices = None
    /\ budget = 0
    /\ allocation = None
    /\ leftover = 0
    /\ error = ""
    /\ first = None
    /\ risk = ""
    /\ include_insurance = FALSE
    /\ base = None
    /\ keys = None
    /\ scale = None
    /\ page = None

NextSelect == CalculateMomentum(prices) \/ OptimizePortfolio

SpecSelect == InitSelect /\ [][NextSelect]_vars

SelectionDone == pc \in { "backtest_strategy", "aborted" } /\ momentum # None

LexIndex(a) == CHOOSE i \in DOMAIN Alphabet : Alphabet[i] = a

Total(a) == momentum[a].total

AllScored == \A a \in Range(tickers) : ~IsNaN(Total(a))

\* a ranks before b: higher composite score, equal scores by ticker
RanksBefore(a, b) ==
    \/ RLess(Total(b), Total(a))
    \/ Total(a) = Total(b) /\ LexIndex(a) < LexIndex(b)

Ceil3Tenths(N) == (3 * N + 9) \div 10

\* C5: the selection is in order of composite score descending, equal
\* scores in ascending ticker order, so that it does not depend on the order
\* in which the universe lists the assets.
C5_TieBreakLexical ==
    (SelectionDone /\ AllScored) =>
        /\ \A i, j \in DOMAIN selected : i < j => RanksBefore(selected[i], selected[j])
        /\ \A a \in Range(selected) : \A b \in Range(tickers) \ Range(selected) :
              RanksBefore(a, b)

\* C6: of N scored assets max(2, ceil(0.3 N)) are handed to the optimizer,
\* and no asset left out has a higher composite score than one handed over.
C6_SelectionCount ==
    (SelectionDone /\ AllScored) =>
        /\ Len(selected) = MaxOf({ 2, Ceil3Tenths(Len(tickers)) })
        /\ \A a \in Range(selected) : \A b \in Range(tickers) \ Range(selected) :
              ~RLess(Total(a), Total(b))

ScenarioAB ==
    /\ SelectionDone
    /\ Range(tickers) = { "A", "B" }
    /\ momentum["A"].r12 = << 1, 5 >>
    /\ momentum["A"].r6 = << 1, 10 >>
    /\ momentum["B"].r12 = << -1, 20 >>
    /\ momentum["B"].r6 = << 1, 50 >>

\* C7: in the universe of A (12m 20%, 6m 10%) and B (12m -5%, 6m 2%) the
\* composites are 0.16 and -0.022 and only A is selected.
C7_ScenarioSelectsA ==
    ScenarioAB =>
        /\ Total("A") = << 4, 25 >>
        /\ Total("B") = << -11, 500 >>
        /\ selected = << "A" >>

\* C8: a frame shorter than a lookback window leaves the return of that
\* window undefined, and an asset with an undefined return is never selected.
C8_UndefinedNeverSelected ==
    SelectionDone =>
        /\ Len(prices) <= W12 => \A a \in Range(tickers) : IsNaN(Total(a))
        /\ \A a \in Range(selected) : ~IsNaN(Total(a))

----------------------------------------------------------------------------
(* The run of main over the universe of get_assets, with two-row price     *)
(* histories in which SPY and QQQ move and the other assets stay flat.     *)

RunLevels == << 40000, 50000 >>

Movers == { "SPY", "QQQ" }

RunHistories ==
    { << [a \in Range(get_assets) |-> RunLevels[1]],
         [a \in Range(get_assets) |-> IF a \in up THEN RunLevels[2] ELSE RunLevels[1]] >> :
      up \in SUBSET Movers }

Init ==
    /\ pc = "get_assets"
    /\ tickers = None
    /\ momentum = None
    /\ selected = None
    /\ raw_weights = None
    /\ weights = None
    /\ prices = None
    /\ rebalance = {}
    /\ portfolio = None
    /\ todo = None
    /\ cum_returns = None
    /\ latest_prices = None
    /\ budget = 0
    /\ allocation = None
    /\ leftover = 0
    /\ error = ""
    /\ first = None
    /\ risk = ""
    /\ include_insurance = FALSE
    /\ base = None
    /\ keys = None
    /\ scale = None
    /\ page = None

Download == \E P \in RunHistories : \E R \in SUBSET Rows(P) : DownloadData(P, R)

\* line 125: the momentum of prices.iloc[-1:]
LatestMomentum == CalculateMomentum(LastRowOnly(prices))

\* lines 140-142 with the budget CASH
Allocate == DiscreteAllocation(get_latest_prices(prices), CASH)

Next ==
    \/ GetAssets
    \/ Download
    \/ LatestMomentum
    \/ OptimizePortfolio
    \/ BacktestBegin
    \/ RebalanceStep
    \/ BacktestEnd
    \/ PlotResults
    \/ GenerateReport
    \/ Allocate

Spec == Init /\ [][Next]_vars

AfterOptimizer ==
    pc \notin { "get_assets", "download_data", "calculate_momentum", "optimize_portfolio" }
        /\ error # "download_data"

Tolerance == << 1, 1000000 >>

\* C1: every weight the optimizer returns is >= 0 and the weights sum to 1.0
\* within 1e-6.
C1_WeightsSumToOne ==
    (AfterOptimizer /\ error = "") =>
        /\ \A a \in DOMAIN weights : RLeq(Zero, weights[a])
        /\ RLeq(RAbs(RSub(RSum(DOMAIN weights, weights), One)), Tolerance)

Downstream ==
    { "backtest_strategy", "rebalance", "plot_results", "generate_report",
      "allocate", "done" }

\* C16: the stages run in the order retrieval, scoring, selection,
\* optimization, then backtest and allocation, then reporting: the backtest
\* and the allocator start only with the optimizer's weights, and
\* generate_report starts only when the backtest has produced the
\* cumulative returns and the allocator its result.
C16_StageOrder ==
    /\ pc \in Downstream =>
          /\ prices # None
          /\ momentum # None
          /\ selected # None
          /\ weights # None
    /\ pc = "generate_report" =>
          /\ cum_returns # None
          /\ latest_prices # None
          /\ budget = CASH

\* up to the report the stages are in order: the report starts with the
\* backtest finished, and the allocator starts after the report
ReportBeforeAllocation ==
    /\ pc \in Downstream =>
          /\ prices # None
          /\ momentum # None
          /\ selected # None
          /\ weights # None
    /\ pc \in { "generate_report", "allocate" } =>
          /\ cum_returns # None
          /\ latest_prices = None
          /\ budget = 0

----------------------------------------------------------------------------
(* Two runs of main, one after the other, over the same frozen download.   *)
(* first is None in the first run and holds its data and results in the    *)
(* second.  max_sharpe and lp_portfolio are deterministic solvers: called  *)
(* again with the arguments of the first run they answer as they did then. *)

\* what a finished run read and produced
RunRecord ==
    [prices |-> prices, rebalance |-> rebalance, selected |-> selected,
     raw_weights |-> raw_weights, weights |-> weights,
     cum_returns |-> cum_returns, allocation |-> allocation,
     leftover |-> leftover, error |-> error]

\* the download over frozen data: the second run reads the history and the
\* index the first run read
FrozenDownload ==
    \E P \in RunHistories : \E R \in SUBSET Rows(P) :
        /\ first # None => (P = first.prices /\ R = first.rebalance)
        /\ DownloadData(P, R)

\* max_sharpe on the arguments of the first run answers as in the first run
RepeatedSolve ==
    (first # None /\ prices = first.prices
        /\ Select(momentum, tickers) = first.selected) =>
            /\ raw_weights' = first.raw_weights
            /\ error' = first.error

Optimize ==
    /\ pc = "optimize_portfolio"
    /\ RepeatedSolve
    /\ OptimizePortfolio

\* lp_portfolio free to answer the arguments of the first run with any optimum
UnrepeatedAllocation ==
    (first # None /\ prices = first.prices /\ weights = first.weights) => TRUE

\* lp_portfolio on the arguments of the first run answers as in the first run
RepeatedAllocation ==
    (first # None /\ prices = first.prices /\ weights = first.weights) =>
        /\ allocation' = first.allocation
        /\ leftover' = first.leftover

AllocateOnce ==
    /\ pc = "allocate"
    /\ RepeatedAllocation
    /\ Allocate

\* lines 148-149 once more: main starts again with locals of its own
NextRun ==
    /\ pc \in { "done", "aborted" }
    /\ first = None
    /\ first' = RunRecord
    /\ pc' = "get_assets"
    /\ tickers' = None
    /\ momentum' = None
    /\ selected' = None
    /\ raw_weights' = None
    /\ weights' = None
    /\ prices' = None
    /\ rebalance' = {}
    /\ portfolio' = None
    /\ todo' = None
    /\ cum_returns' = None
    /\ latest_prices' = None
    /\ budget' = 0
    /\ allocation' = None
    /\ leftover' = 0
    /\ error' = ""
    /\ UNCHANGED advisor

NextTwice ==
    \/ GetAssets
    \/ FrozenDownload
    \/ LatestMomentum
    \/ Optimize
    \/ BacktestBegin
    \/ RebalanceStep
    \/ BacktestEnd
    \/ PlotResults
    \/ GenerateReport
    \/ AllocateOnce
    \/ NextRun

SpecTwice == Init /\ [][NextTwice]_vars

\* the second run has ended, and both runs read the frozen data
BothRunsEnded ==
    /\ first # None
    /\ pc \in { "done", "aborted" }
    /\ first.error # "download_data"
    /\ error # "download_data"

----------------------------------------------------------------------------
(* recommend_portfolio of sharktank.py and the lines that call it and show *)
(* its result.  A dict is the sequence of its items in insertion order;    *)
(* the percentages are rationals.                                          *)

Item(k, v) == [k |-> k, v |-> RInt(v)]

\* lines 67-93: the dict literal of the branch taken; every risk other
\* than "Low" and "Moderate" takes the else branch
BaseOf(r) ==
    IF r = "Low"
    THEN << Item("Bonds", 40), Item("Large Cap Stocks", 20),
            Item("International Stocks", 10), Item("REITs", 10),
            Item("Cash", 10) >>
    ELSE IF r = "Moderate"
    THEN << Item("Large Cap Stocks", 25), Item("Mid Cap Stocks", 15),
            Item("International Stocks", 20), Item("Bonds", 20),
            Item("Alternatives", 10), Item("Cash", 10) >>
    ELSE << Item("Growth Stocks", 30), Item("Small Cap Stocks", 20),
            Item("International Stocks", 20), Item("Crypto", 10),
            Item("Bonds", 10), Item("Alternatives", 10) >>

RESERVE_KEY == "Life Insurance Premium Reserve"

\* line 96
reserve == 5

\* list(d.keys())
DictKeys(d) == [i \in DOMAIN d |-> d[i].k]

\* d[k]
DictGet(d, k) == d[CHOOSE i \in DOMAIN d : d[i].k = k].v

\* d[k] = v: the item of k is replaced in place, a new key is appended
DictSet(d, k, v) ==
    IF \E i \in DOMAIN d : d[i].k = k
    THEN [i \in DOMAIN d |-> IF d[i].k = k THEN [k |-> k, v |-> v] ELSE d[i]]
    ELSE Append(d, [k |-> k, v |-> v])

\* sum(d.values())
DictSum(d) == RSum(DOMAIN d, [i \in DOMAIN d |-> d[i].v])

\* round(x, 1): to the nearest tenth, halves to the even tenth; the halves
\* that occur (23.75, 14.25) are exact as floats
Round1(x) ==
    LET y == RMul(x, RInt(10))
        fl == y[1] \div y[2]
        twice == 2 * (y[1] - fl * y[2])
        q == IF twice < y[2] THEN fl
             ELSE IF twice > y[2] THEN fl + 1
             ELSE IF fl % 2 = 0 THEN fl ELSE fl + 1
    IN  Rat(q, 10)

\* lines 67-93
ChooseBase ==
    /\ pc = "recommend_portfolio"
    /\ base' = BaseOf(risk)
    /\ pc' = "include_insurance"
    /\ UNCHANGED << tickers, momentum, selected, raw_weights, weights, prices,
                    rebalance, portfolio, todo, cum_returns, latest_prices,
                    budget, allocation, leftover, error, first, risk,
                    include_insurance, keys, scale, page >>

\* lines 95-99: the reserve is added, the factor computed from the sum that
\* holds the reserve, and the loop starts over the keys of that moment
AddReserve ==
    /\ pc = "include_insurance"
    /\ include_insurance
    /\ base' = DictSet(base, RESERVE_KEY, RInt(reserve))
    /\ scale' = RDiv(RInt(100 - reserve), RSub(DictSum(base'), RInt(reserve)))
    /\ keys' = DictKeys(base')
    /\ pc' = "rescale"
    /\ UNCHANGED << tickers, momentum, selected, raw_weights, weights, prices,
                    rebalance, portfolio, todo, cum_returns, latest_prices,
                    budget, allocation, leftover, error, first, risk,
                    include_insurance, page >>

\* line 95 with include_insurance false
SkipReserve ==
    /\ pc = "include_insurance"
    /\ ~include_insurance
    /\ pc' = "return"
    /\ UNCHANGED << tickers, momentum, selected, raw_weights, weights, prices,
                    rebalance, portfolio, todo, cum_returns, latest_prices,
                    budget, allocation, leftover, error, first, risk,
                    include_insurance, base, keys, scale, page >>

\* lines 99-101, one key of the loop
RescaleStep ==
    /\ pc = "rescale"
    /\ keys # << >>
    /\ LET k == Head(keys)
       IN  base' = IF k # RESERVE_KEY
                   THEN DictSet(base, k, Round1(RMul(DictGet(base, k), scale)))
                   ELSE base
    /\ keys' = Tail(keys)
    /\ UNCHANGED << pc, tickers, momentum, selected, raw_weights, weights,
                    prices, rebalance, portfolio, todo, cum_returns,
                    latest_prices, budget, allocation, leftover, error, first,
                    risk, include_insurance, scale, page >>

\* the loop of lines 99-101 is over
RescaleEnd ==
    /\ pc = "rescale"
    /\ keys = << >>
    /\ pc' = "return"
    /\ UNCHANGED << tickers, momentum, selected, raw_weights, weights, prices,
                    rebalance, portfolio, todo, cum_returns, latest_prices,
                    budget, allocation, leftover, error, first, risk,
                    include_insurance, base, keys, scale, page >>

\* line 103 and the assignment of line 184
ReturnBase ==
    /\ pc = "return"
    /\ allocation' = base
    /\ keys' = DictKeys(base)
    /\ page' = << >>
    /\ pc' = "show"
    /\ UNCHANGED << tickers, momentum, selected, raw_weights, weights, prices,
                    rebalance, portfolio, todo, cum_returns, latest_prices,
                    budget, leftover, error, first, risk, include_insurance,
                    base, scale >>

\* lines 185-186, one item of allocation.items()
ShowItem ==
    /\ pc = "show"
    /\ keys # << >>
    /\ page' = Append(page, [k |-> Head(keys), v |-> DictGet(allocation, Head(keys))])
    /\ keys' = Tail(keys)
    /\ UNCHANGED << pc, tickers, momentum, selected, raw_weights, weights,
                    prices, rebalance, portfolio, todo, cum_returns,
                    latest_prices, budget, allocation, leftover, error, first,
                    risk, include_insurance, base, scale >>

\* the risk levels of the selectbox of line 36 and two strings that are not
Risks == { "Low", "Moderate", "High", "low", "" }

InitAdvisor ==
    /\ pc = "recommend_portfolio"
    /\ risk \in Risks
    /\ include_insurance \in BOOLEAN
    /\ base = None
    /\ keys = None
    /\ scale = None
    /\ page = None
    /\ allocation = None
    /\ tickers = None
    /\ momentum = None
    /\ selected = None
    /\ raw_weights = None
    /\ weights = None
    /\ prices = None
    /\ rebalance = {}
    /\ portfolio = None
    /\ todo = None
    /\ cum_returns = None
    /\ latest_prices = None
    /\ budget = 0
    /\ leftover = 0
    /\ error = ""
    /\ first = None

NextAdvisor ==
    \/ ChooseBase
    \/ AddReserve
    \/ SkipReserve
    \/ RescaleStep
    \/ RescaleEnd
    \/ ReturnBase
    \/ ShowItem

SpecAdvisor == InitAdvisor /\ [][NextAdvisor]_vars

Returned == pc = "show"

\* C17: for the risk levels Low, Moderate and High, with and without the
\* insurance reserve, every entry of the returned portfolio is in [0, 100]
\* and the entries sum to exactly 100.
C17_SumsToHundred ==
    (Returned /\ risk \in { "Low", "Moderate", "High" }) =>
        /\ \A i \in DOMAIN allocation :
              /\ RLeq(Zero, allocation[i].v)
              /\ RLeq(allocation[i].v, RInt(100))
        /\ DictSum(allocation) = RInt(100)

\* the levels other than Low return entries that sum to exactly 100
SumsToHundredButLow ==
    (Returned /\ risk # "Low") => DictSum(allocation) = RInt(100)

====
